---- MODULE Spec2Model ----
(***************************************************************************)
(* A model of gpflow/training/scipy.py: ScipyOptimizer.pack_tensors,       *)
(* unpack_tensors, eval_func._eval and minimize.                           *)
(*                                                                         *)
(* A tensor is a record [shape, val]: shape is a sequence of dimension     *)
(* sizes and val maps every multi-index (0-based, one entry per dimension) *)
(* to an element.  A flat vector is a sequence; position k of the          *)
(* sequence is index k-1 of the numpy array.                               *)
(***************************************************************************)
EXTENDS Integers, Sequences, FiniteSets, TLC

\* Bounds of the model.
MaxEvals == 2      \* evaluation calls the solver makes in one minimize
MaxExtra == 1      \* how much longer than the tensors a direct vector may be

\* Element values of tensors and vectors.
Values == {0, 1}

\* The parameter collections (each a sequence of tensor shapes) on which the
\* two static methods are called directly.
ShapeConfigs ==
    { << <<2, 2>>, <<3>> >>,
      << <<3>> >>,
      << <<2, 3>> >>,
      << <<2, 1, 2>>, <<1>> >>,
      << <<1>>, <<2>>, <<1, 2>> >> }

\* The parameter collections minimize is called on.
MinimizeConfigs ==
    { << <<3>> >>,
      << <<2, 2>>, <<1>> >>,
      << <<2, 1, 2>>, <<1>> >>,
      << <<1>>, <<2>>, <<1, 2>> >> }

None == "none"

\* No error raised, nothing returned.
NoError == [type |-> "none"]
NoReturn == [kind |-> "none"]

Min(a, b) == IF a < b THEN a ELSE b

(***************************************************************************)
(* Shapes, indices and the row-major layout of tf.reshape.                 *)
(***************************************************************************)
RECURSIVE Prod(_)
\* np.prod(shape): the number of elements of a tensor of that shape.
Prod(shape) ==
    IF shape = <<>> THEN 1 ELSE Head(shape) * Prod(Tail(shape))

RECURSIVE Indices(_)
\* Every multi-index of a tensor of that shape.
Indices(shape) ==
    IF shape = <<>> THEN { <<>> }
    ELSE { <<i>> \o r : i \in 0 .. (Head(shape) - 1), r \in Indices(Tail(shape)) }

RECURSIVE RavelColMajor(_, _)
\* Mutant of Ravel: the first index varies fastest (column-major).
RavelColMajor(idx, shape) ==
    IF idx = <<>> THEN 0
    ELSE Head(idx) + Head(shape) * RavelColMajor(Tail(idx), Tail(shape))

RECURSIVE Ravel(_, _)
\* The flat (row-major) offset of multi-index idx in a tensor of that shape:
\* where tf.reshape(vector, shape) reads element idx from.
Ravel(idx, shape) ==
    IF idx = <<>> THEN 0
    ELSE Head(idx) * Prod(Tail(shape)) + Ravel(Tail(idx), Tail(shape))

RECURSIVE Unravel(_, _)
\* The multi-index at flat (row-major) offset k of a tensor of that shape:
\* what tf.reshape(tensor, (-1,)) puts at offset k.
Unravel(k, shape) ==
    IF shape = <<>> THEN <<>>
    ELSE << k \div Prod(Tail(shape)) >> \o Unravel(k % Prod(Tail(shape)), Tail(shape))

\* tf.reshape(tensor, (-1,)).
Flatten(tensor) ==
    [k \in 1 .. Prod(tensor.shape) |-> tensor.val[Unravel(k - 1, tensor.shape)]]

\* tf.reshape(tensor_vector, shape), defined when the sizes agree.
ReshapeTo(vec, shape) ==
    [shape |-> shape,
     val   |-> [idx \in Indices(shape) |-> vec[Ravel(idx, shape) + 1]]]

\* from_vector[a : b] of numpy: the elements at offsets a .. b-1 that exist.
Slice(vec, a, b) == SubSeq(vec, a + 1, Min(b, Len(vec)))

RECURSIVE ConcatReversed(_)
\* Mutant of Concat: the pieces are joined last to first.
ConcatReversed(flats) ==
    IF flats = <<>> THEN <<>> ELSE ConcatReversed(Tail(flats)) \o Head(flats)

RECURSIVE Concat(_)
\* tf.concat(flats, axis=0).
Concat(flats) ==
    IF flats = <<>> THEN <<>> ELSE Head(flats) \o Concat(Tail(flats))

\* ScipyOptimizer.pack_tensors.
pack_tensors(tensors) ==
    Concat([i \in 1 .. Len(tensors) |-> Flatten(tensors[i])])

\* Mutant of NextOffset: the offset advances by one element, not one tensor.
NextOffsetByOne(s, tensor_size) == s + 1

\* s += tensor_size.
NextOffset(s, tensor_size) == s + tensor_size

\* Whether tf.reshape(tensor_vector, shape) succeeds: only when the slice has
\* exactly the tensor's number of elements.
ReshapeFits(tensor_vector, shape) == Len(tensor_vector) = Prod(shape)

RECURSIVE UnpackLoop(_, _, _, _)
\* The loop of ScipyOptimizer.unpack_tensors from tensor i at offset s.  The
\* result holds the tensors as the loop leaves them, whether it raised, and
\* the tensor it raised at.
UnpackLoop(tensors, from_vector, i, s) ==
    IF i > Len(tensors) THEN [tensors |-> tensors, raised |-> FALSE, at |-> 0]
    ELSE LET shape == tensors[i].shape
             tensor_size == Prod(shape)
             tensor_vector == Slice(from_vector, s, s + tensor_size)
         IN  IF ~ReshapeFits(tensor_vector, shape)
             THEN [tensors |-> tensors, raised |-> TRUE, at |-> i]
             ELSE UnpackLoop(
                    [tensors EXCEPT ![i] = ReshapeTo(tensor_vector, shape)],
                    from_vector, i + 1, NextOffset(s, tensor_size))

\* Mutant of unpack_tensors: when the loop raises, no tensor has been assigned.
unpack_tensorsAllOrNothing(to_tensors, from_vector) ==
    LET out == UnpackLoop(to_tensors, from_vector, 1, 0)
    IN  IF out.raised THEN [out EXCEPT !.tensors = to_tensors] ELSE out

\* ScipyOptimizer.unpack_tensors.
unpack_tensors(to_tensors, from_vector) == UnpackLoop(to_tensors, from_vector, 1, 0)

RECURSIVE TotalSize(_)
\* The total number of elements of the tensors.
TotalSize(tensors) ==
    IF tensors = <<>> THEN 0
    ELSE Prod(Head(tensors).shape) + TotalSize(Tail(tensors))

\* Every vector of length n.
Vectors(n) == [1 .. n -> Values]

RECURSIVE TensorsOf(_)
\* Every tensor collection with the shapes of a configuration.
TensorsOf(config) ==
    IF config = <<>> THEN { <<>> }
    ELSE { << [shape |-> Head(config), val |-> f] >> \o r :
             f \in [Indices(Head(config)) -> Values], r \in TensorsOf(Tail(config)) }

(***************************************************************************)
(* The closure and the loss/gradient computation.  The loss is the convex  *)
(* quadratic sum(x^2) over all parameters; its gradient is 2x, one         *)
(* gradient tensor per parameter, of the parameter's shape.                *)
(***************************************************************************)
RECURSIVE SumSeq(_)
\* The sum of the elements of a vector.
SumSeq(vec) == IF vec = <<>> THEN 0 ELSE Head(vec) + SumSeq(Tail(vec))

\* loss_gradients(closure, variables) when the closure returns.
loss_gradients(tensors) ==
    [loss  |-> SumSeq([k \in 1 .. TotalSize(tensors) |->
                          pack_tensors(tensors)[k] * pack_tensors(tensors)[k]]),
     grads |-> [i \in 1 .. Len(tensors) |->
                  [shape |-> tensors[i].shape,
                   val   |-> [idx \in DOMAIN tensors[i].val |-> 2 * tensors[i].val[idx]]]]]

(***************************************************************************)
(* State.                                                                  *)
(***************************************************************************)
VARIABLES
    variables,      \* the parameter tensors (mutated in place by assign)
    pc,             \* where the caller, minimize, the solver or _eval stands
    closure,        \* whether minimize's closure argument is callable
    from_vector,    \* the vector of the last direct unpack_tensors call
    x,              \* the candidate vector of the current / last _eval call
    initial_params, \* minimize's initial_params, the solver's x0
    step_callback,  \* whether minimize was given a callable step_callback
    loss, grads,    \* _eval's locals
    ret,            \* what the last call returned (None: nothing)
    err,            \* the error that was raised (None: no error)
    result,         \* what minimize returned (None: nothing)
    before,         \* history: the tensors before the first call
    steps,          \* history: the steps of the current / last _eval call
    seen,           \* history: what its loss/gradient computation read
    observed,       \* history: what the observer received in it
    nEvals, nLoss, nObs, nRet, nSolver
                    \* history: calls of _eval, of the loss/gradient
                    \* computation, of the observer, returns of _eval,
                    \* calls of scipy.optimize.minimize

vars == << variables, pc, closure, from_vector, x, initial_params, step_callback, loss,
           grads, ret, err, result, before, steps, seen, observed,
           nEvals, nLoss, nObs, nRet, nSolver >>

hist == << before, steps, seen, observed, nEvals, nLoss, nObs, nRet, nSolver >>
minimizeState == << closure, x, initial_params, step_callback, loss, grads, result >>

\* The state before any call, the tensors having the shapes of one of configs.
InitOver(configs) ==
    /\ \E config \in configs : variables \in TensorsOf(config)
    /\ before = variables
    /\ pc = "idle"
    /\ closure = None
    /\ from_vector = None /\ x = None /\ initial_params = None
    /\ step_callback = FALSE
    /\ loss = None /\ grads = None /\ ret = NoReturn /\ err = NoError /\ result = None
    /\ steps = <<>> /\ seen = None /\ observed = None
    /\ nEvals = 0 /\ nLoss = 0 /\ nObs = 0 /\ nRet = 0 /\ nSolver = 0

(***************************************************************************)
(* Direct calls of the two static methods.                                 *)
(***************************************************************************)
\* pack_tensors(variables), called on the tensors as constructed.
CallPack ==
    /\ pc = "idle"
    /\ ret' = [kind |-> "vector", value |-> pack_tensors(variables)]
    /\ pc' = "packed"
    /\ UNCHANGED << variables, from_vector, err, minimizeState, hist >>

\* unpack_tensors(variables, v) for a vector v of any length up to MaxExtra
\* more than the tensors hold, called on the tensors as constructed or right
\* after pack_tensors (then with the packed vector as one of the choices).
CallUnpack ==
    /\ pc \in {"idle", "packed"}
    /\ \E n \in 0 .. TotalSize(variables) + MaxExtra :
         \E v \in Vectors(n) :
            LET out == unpack_tensors(variables, v)
            IN  /\ pc = "packed" => v = ret.value
                /\ from_vector' = v
                /\ variables' = out.tensors
                /\ err' = IF out.raised THEN [type |-> "InvalidArgumentError", at |-> out.at]
                          ELSE NoError
                /\ pc' = IF pc = "packed"
                         THEN (IF out.raised THEN "restore_raised" ELSE "restored")
                         ELSE (IF out.raised THEN "unpack_raised" ELSE "unpacked")
    /\ ret' = NoReturn
    /\ UNCHANGED << minimizeState, hist >>

\* pack_tensors(variables) right after a successful unpack_tensors.
PackUnpacked ==
    /\ pc = "unpacked"
    /\ ret' = [kind |-> "vector", value |-> pack_tensors(variables)]
    /\ pc' = "repacked"
    /\ UNCHANGED << variables, from_vector, err, minimizeState, hist >>

(***************************************************************************)
(* minimize, the solver and the evaluation function.                       *)
(***************************************************************************)
\* Mutant of NotCallable: the closure is never checked.
NotCallableUnchecked(c) == FALSE

\* `not callable(closure)`.
NotCallable(c) == c # "callable"

\* Mutant of AfterSolver: the solver's final vector is written back.
AfterSolverWriteBack(tensors, res) == unpack_tensors(tensors, res.x).tensors

\* The tensors when minimize returns the solver's result res: minimize
\* returns the result as it is and touches nothing.
AfterSolver(tensors, res) == tensors

\* minimize up to its call of scipy.optimize.minimize: the closure is
\* checked, the initial vector packed and the evaluation function built.
CallMinimize ==
    /\ pc = "idle"
    /\ \E c \in {"callable", "not_callable"}, cb \in BOOLEAN :
         /\ closure' = c
         /\ step_callback' = cb
         /\ IF NotCallable(c)
            THEN /\ err' = [type |-> "ValueError"]
                 /\ pc' = "minimize_raised"
                 /\ UNCHANGED << initial_params, nSolver >>
            ELSE /\ initial_params' = pack_tensors(variables)
                 /\ nSolver' = nSolver + 1
                 /\ pc' = "solver"
                 /\ UNCHANGED err
    /\ UNCHANGED << variables, from_vector, x, loss, grads, ret, result,
                    before, steps, seen, observed, nEvals, nLoss, nObs, nRet >>

\* The solver calls func(v) with a candidate of the length of x0; _eval
\* unpacks it into the tensors.
SolverEval ==
    /\ pc = "solver"
    /\ nEvals < MaxEvals
    /\ \E v \in Vectors(Len(initial_params)) :
         LET out == unpack_tensors(variables, v)
         IN  /\ x' = v
             /\ variables' = out.tensors
             /\ err' = IF out.raised THEN [type |-> "InvalidArgumentError", at |-> out.at]
                       ELSE NoError
             /\ pc' = IF out.raised THEN "eval_raised" ELSE "eval_unpacked"
    /\ nEvals' = nEvals + 1
    /\ steps' = << "unpack" >>
    /\ loss' = None /\ grads' = None /\ ret' = NoReturn
    /\ seen' = None /\ observed' = None
    /\ UNCHANGED << closure, from_vector, initial_params, step_callback, result,
                    before, nLoss, nObs, nRet, nSolver >>

\* Mutant of EvalLoss: when the closure raises, the tensors are rolled back
\* and the error is swallowed.
EvalLossRecovers ==
    /\ pc = "eval_unpacked"
    /\ \E raises \in BOOLEAN :
         IF raises
         THEN /\ variables' = before
              /\ pc' = "solver"
              /\ UNCHANGED << loss, grads, err >>
         ELSE /\ loss' = loss_gradients(variables).loss
              /\ grads' = loss_gradients(variables).grads
              /\ pc' = "eval_computed"
              /\ UNCHANGED << variables, err >>
    /\ nLoss' = nLoss + 1
    /\ seen' = variables
    /\ steps' = Append(steps, "loss")
    /\ UNCHANGED << closure, from_vector, x, initial_params, step_callback, ret,
                    result, before, observed, nEvals, nObs, nRet, nSolver >>

\* loss, grads = loss_gradients(closure, variables): the computation runs on
\* the tensors as they are now, and either returns or raises.
EvalLoss ==
    /\ pc = "eval_unpacked"
    /\ \E raises \in BOOLEAN :
         IF raises
         THEN /\ err' = [type |-> "ClosureError"]
              /\ pc' = "eval_raised"
              /\ UNCHANGED << loss, grads >>
         ELSE /\ loss' = loss_gradients(variables).loss
              /\ grads' = loss_gradients(variables).grads
              /\ pc' = "eval_computed"
              /\ UNCHANGED err
    /\ nLoss' = nLoss + 1
    /\ seen' = variables
    /\ steps' = Append(steps, "loss")
    /\ UNCHANGED << variables, closure, from_vector, x, initial_params,
                    step_callback, ret, result, before, observed,
                    nEvals, nObs, nRet, nSolver >>

\* Mutant of EvalObserver: the observer is invoked on the first evaluation
\* call only.
EvalObserverFirstOnly ==
    /\ pc = "eval_computed"
    /\ IF step_callback /\ nObs = 0
       THEN /\ nObs' = nObs + 1
            /\ observed' = [loss |-> loss, variables |-> variables, grads |-> grads]
            /\ steps' = Append(steps, "observer")
       ELSE UNCHANGED << nObs, observed, steps >>
    /\ pc' = "eval_observed"
    /\ UNCHANGED << variables, closure, from_vector, x, initial_params,
                    step_callback, loss, grads, ret, err, result, before, seen,
                    nEvals, nLoss, nRet, nSolver >>

\* Mutant of EvalObserver: the observer runs before the loss/gradient
\* computation, on the locals as they are then.
EvalObserverBeforeLoss ==
    /\ pc = "eval_unpacked"
    /\ step_callback
    /\ steps = << "unpack" >>
    /\ nObs' = nObs + 1
    /\ observed' = [loss |-> loss, variables |-> variables, grads |-> grads]
    /\ steps' = Append(steps, "observer")
    /\ UNCHANGED << variables, pc, closure, from_vector, x, initial_params,
                    step_callback, loss, grads, ret, err, result, before, seen,
                    nEvals, nLoss, nRet, nSolver >>

\* `if callable(step_callback): step_callback(loss, variables, grads)`: the
\* observer, when there is one, is invoked and either returns or raises.
EvalObserver ==
    /\ pc = "eval_computed"
    /\ IF step_callback
       THEN /\ nObs' = nObs + 1
            /\ observed' = [loss |-> loss, variables |-> variables, grads |-> grads]
            /\ steps' = Append(steps, "observer")
            /\ \E raises \in BOOLEAN :
                 /\ pc' = IF raises THEN "eval_raised" ELSE "eval_observed"
                 /\ err' = IF raises THEN [type |-> "ObserverError"] ELSE err
       ELSE /\ pc' = "eval_observed"
            /\ UNCHANGED << nObs, observed, steps, err >>
    /\ UNCHANGED << variables, closure, from_vector, x, initial_params,
                    step_callback, loss, grads, ret, result, before, seen,
                    nEvals, nLoss, nRet, nSolver >>

\* `return loss.numpy(), cls.pack_tensors(grads)`: back in the solver.
EvalReturn ==
    /\ pc = "eval_observed"
    /\ ret' = [kind |-> "pair", loss |-> loss, grad |-> pack_tensors(grads)]
    /\ steps' = Append(steps, "pack")
    /\ nRet' = nRet + 1
    /\ pc' = "solver"
    /\ UNCHANGED << variables, closure, from_vector, x, initial_params,
                    step_callback, loss, grads, err, result, before, seen,
                    observed, nEvals, nLoss, nObs, nSolver >>

\* The solver returns its result, whose final vector is its x0 or a candidate
\* it evaluated, and minimize returns that result.
SolverReturn ==
    /\ pc = "solver"
    /\ \E final \in {initial_params} \cup (IF nEvals = 0 THEN {} ELSE {x}) :
         /\ result' = [x |-> final]
         /\ variables' = AfterSolver(variables, [x |-> final])
    /\ pc' = "done"
    /\ UNCHANGED << closure, from_vector, x, initial_params, step_callback,
                    loss, grads, ret, err, before, steps, seen, observed,
                    nEvals, nLoss, nObs, nRet, nSolver >>

\* The program under minimize: the caller calls minimize once.
Init == InitOver(MinimizeConfigs)

Next ==
    \/ CallMinimize
    \/ SolverEval
    \/ EvalLoss
    \/ EvalObserver
    \/ EvalReturn
    \/ SolverReturn

Spec == Init /\ [][Next]_vars

\* The program under direct calls of pack_tensors and unpack_tensors.
PackInit == InitOver(ShapeConfigs)

PackNext ==
    \/ CallPack
    \/ CallUnpack
    \/ PackUnpacked

PackSpec == PackInit /\ [][PackNext]_vars

(***************************************************************************)
(* What the claims are stated with: the layout of a flat vector written    *)
(* out as arithmetic on the indices.                                       *)
(***************************************************************************)
\* The offset of multi-index idx in the row-major order of a tensor of that
\* shape, for the ranks the model explores.
RowMajor(idx, shape) ==
    IF Len(shape) = 1 THEN idx[1]
    ELSE IF Len(shape) = 2 THEN idx[1] * shape[2] + idx[2]
    ELSE idx[1] * shape[2] * shape[3] + idx[2] * shape[3] + idx[3]

\* The number of elements of tensor i.
SizeOf(tensors, i) == Cardinality(DOMAIN tensors[i].val)

RECURSIVE OffsetOf(_, _)
\* The sum of the sizes of the tensors before tensor i.
OffsetOf(tensors, i) ==
    IF i = 1 THEN 0 ELSE OffsetOf(tensors, i - 1) + SizeOf(tensors, i - 1)

\* Tensor i holds the run of vec that starts at the sum of the sizes of the
\* tensors before it, element by element in row-major order.
HoldsRun(tensors, i, vec) ==
    \A idx \in DOMAIN tensors[i].val :
        tensors[i].val[idx] = vec[OffsetOf(tensors, i) + RowMajor(idx, tensors[i].shape) + 1]

\* Every tensor holds its run of vec.
LaidOut(tensors, vec) == \A i \in 1 .. Len(tensors) : HoldsRun(tensors, i, vec)

\* The two collections have the same tensors' shapes, in the same order.
SameShapes(a, b) ==
    /\ Len(a) = Len(b)
    /\ \A i \in 1 .. Len(a) :
          a[i].shape = b[i].shape /\ DOMAIN a[i].val = DOMAIN b[i].val

\* The steps of one evaluation call, in the order of the code.
StepOrder == IF step_callback THEN << "unpack", "loss", "observer", "pack" >>
             ELSE << "unpack", "loss", "pack" >>

IsPrefix(a, b) == Len(a) <= Len(b) /\ a = SubSeq(b, 1, Len(a))

Did(step) == \E k \in 1 .. Len(steps) : steps[k] = step

\* The quadratic loss of the candidate x and its gradient, from x itself.
LossOf(vec) == SumSeq([k \in 1 .. Len(vec) |-> vec[k] * vec[k]])
GradOf(vec) == [k \in 1 .. Len(vec) |-> 2 * vec[k]]

(***************************************************************************)
(* The claims on pack_tensors and unpack_tensors (under PackSpec).         *)
(***************************************************************************)
\* C1: unpack_tensors(tensors, pack_tensors(tensors)) does not raise and
\* leaves every tensor with its original shape and its original values,
\* element for element.
C1_RoundTripRestores ==
    /\ pc # "restore_raised"
    /\ pc = "restored" => variables = before

\* C1's case: the round trip was made on tensors [(2,2),(3,)] whose (2,2)
\* tensor is not symmetric.
C1_Witness ==
    /\ pc = "restored"
    /\ Len(variables) = 2
    /\ variables[1].shape = << 2, 2 >>
    /\ before[1].val[<< 0, 1 >>] # before[1].val[<< 1, 0 >>]

\* C2: for a vector v of the tensors' total size and any prior contents,
\* unpack_tensors(tensors, v) does not raise and pack_tensors(tensors) right
\* after it equals v element for element.
C2_PackAfterUnpack ==
    /\ pc = "unpack_raised" => Len(from_vector) # TotalSize(variables)
    /\ (pc = "repacked" /\ Len(from_vector) = TotalSize(variables))
          => ret.value = from_vector

\* C2's case: a vector of the right length, different from the prior
\* contents, was unpacked and the tensors packed again.
C2_Witness ==
    /\ pc = "repacked"
    /\ Len(from_vector) = TotalSize(variables)
    /\ Len(variables) > 1
    /\ \A k \in 1 .. Len(from_vector) : from_vector[k] # pack_tensors(before)[k]

\* C5: unpack_tensors fails whenever the vector's length differs from the
\* tensors' total size, too short or too long.
C5_MismatchAlwaysFails ==
    (pc \in {"unpacked", "unpack_raised"} /\ Len(from_vector) # TotalSize(variables))
        => pc = "unpack_raised"

\* C6: pack_tensors returns a vector whose length is the sum of the tensors'
\* sizes and in which tensor i occupies the run starting at the sum of the
\* sizes of the tensors before it; unpack_tensors of a vector of that length
\* keeps the shapes and assigns every tensor its run.
C6_TensorOrderLayout ==
    /\ pc = "packed" =>
          /\ Len(ret.value) = TotalSize(before)
          /\ LaidOut(before, ret.value)
    /\ (pc = "unpacked" /\ Len(from_vector) = TotalSize(before)) =>
          /\ SameShapes(variables, before)
          /\ LaidOut(variables, from_vector)

\* C6's case: shapes [(2,2),(3,)] packed into a vector of length 7 whose
\* elements tell the two tensors and their positions apart.
C6_Witness ==
    /\ pc = "packed"
    /\ Len(before) = 2
    /\ before[1].shape = << 2, 2 >> /\ before[2].shape = << 3 >>
    /\ Len(ret.value) = 7
    /\ ret.value = << 0, 1, 0, 0, 1, 1, 0 >>

\* C10: when unpack_tensors raises at tensor k (the first tensor the vector
\* is too short to fill), every tensor before k holds its run of the vector
\* and tensor k and the later ones keep their previous values.
C10_PartialUnpack ==
    pc = "unpack_raised" =>
        /\ err.at \in 1 .. Len(variables)
        /\ OffsetOf(before, err.at) + SizeOf(before, err.at) > Len(from_vector)
        /\ \A i \in 1 .. (err.at - 1) :
              OffsetOf(before, i) + SizeOf(before, i) <= Len(from_vector)
        /\ SameShapes(variables, before)
        /\ \A i \in 1 .. Len(variables) :
              IF i < err.at THEN HoldsRun(variables, i, from_vector)
              ELSE variables[i] = before[i]

\* C10's case: the unpack raised past the first tensor, which it changed.
C10_Witness ==
    /\ pc = "unpack_raised"
    /\ err.at > 1
    /\ variables[1] # before[1]
    /\ variables # before

(***************************************************************************)
(* The claims on minimize and the evaluation function (under Spec).        *)
(***************************************************************************)
\* C3: minimize with a closure that is not callable raises ValueError before
\* any solver interaction: the solver is never called, no evaluation call
\* happens, the observer is never invoked, and no tensor is modified.
C3_RejectsNonCallable ==
    closure = "not_callable" =>
        /\ pc = "minimize_raised"
        /\ err.type = "ValueError"
        /\ nSolver = 0 /\ nEvals = 0 /\ nLoss = 0 /\ nObs = 0
        /\ variables = before

\* C3's case: minimize was called with a closure that is not callable (and
\* with an observer).
C3_Witness ==
    /\ closure = "not_callable"
    /\ step_callback
    /\ pc = "minimize_raised"

\* C4: with an observer, it is invoked exactly once in every evaluation call
\* that gets past its loss/gradient computation (none otherwise), with the
\* loss and the gradients of the parameters unpacked from that call's
\* candidate; without an observer it is never invoked.
C4_ObserverOncePerEval ==
    /\ ~step_callback => nObs = 0
    /\ step_callback =>
          nObs = nRet + (IF \/ pc = "eval_observed"
                            \/ (pc = "eval_raised" /\ err.type = "ObserverError")
                         THEN 1 ELSE 0)
    /\ Did("observer") =>
          /\ SameShapes(observed.variables, before)
          /\ LaidOut(observed.variables, x)
          /\ observed.loss = LossOf(x)
          /\ SameShapes(observed.grads, before)
          /\ LaidOut(observed.grads, GradOf(x))

\* C4's case: the solver made two evaluation calls with different candidates
\* and the observer ran in both.
C4_Witness ==
    /\ step_callback
    /\ pc = "solver"
    /\ nEvals = 2 /\ nObs = 2
    /\ x # initial_params
    /\ Did("observer")

\* C7: when minimize returns, the tensors hold the values unpacked from the
\* candidate of the solver's last evaluation call, and their values from
\* before minimize if there was no evaluation call.
C7_NoWriteBack ==
    pc = "done" =>
        IF nEvals = 0 THEN variables = before
        ELSE SameShapes(variables, before) /\ LaidOut(variables, x)

\* C7's case: minimize returned a result whose final vector is not the last
\* candidate evaluated.
C7_Witness ==
    /\ pc = "done"
    /\ nEvals > 0
    /\ result.x # x

\* C8: in every evaluation call the steps are unpack, loss/gradient
\* computation, observer (if supplied), pack-and-return, in this order; the
\* loss/gradient computation reads the parameters unpacked from this call's
\* candidate, and the pair returned is the loss and the packed gradients of
\* those parameters.
C8_StepOrder ==
    /\ IsPrefix(steps, StepOrder)
    /\ Did("loss") => SameShapes(seen, before) /\ LaidOut(seen, x)
    /\ ret.kind = "pair" =>
          /\ steps = StepOrder
          /\ ret.loss = LossOf(x)
          /\ ret.grad = GradOf(x)

\* C8's case: an evaluation call with an observer ran all four steps.
C8_Witness ==
    /\ step_callback
    /\ ret.kind = "pair"
    /\ steps = << "unpack", "loss", "observer", "pack" >>
    /\ x # initial_params

\* C9: an error raised by the loss/gradient computation or by the observer
\* ends the evaluation call: no pair is returned, the computation is not run
\* again, the observer is not invoked when the computation raised, and the
\* tensors keep the values unpacked from the call's candidate.
C9_ErrorsPropagate ==
    /\ nLoss <= nEvals /\ nObs <= nLoss
    /\ pc \in {"solver", "done"} => (err.type = "none" /\ nRet = nEvals)
    /\ pc = "eval_raised" =>
          /\ err.type \in {"ClosureError", "ObserverError"}
          /\ ret.kind = "none"
          /\ nRet = nEvals - 1
          /\ nLoss = nEvals
          /\ err.type = "ClosureError" => ~Did("observer")
          /\ SameShapes(variables, before)
          /\ LaidOut(variables, x)

\* C9's case: the loss/gradient computation raised in the second evaluation
\* call, with an observer supplied and the tensors changed.
C9_Witness ==
    /\ pc = "eval_raised"
    /\ err.type = "ClosureError"
    /\ step_callback
    /\ nEvals = 2
    /\ variables # before

====
